---- MODULE Spec2Model ----
(***************************************************************************)
(* Model of poc-loader.py: the enrichment and dual-write pipeline.         *)
(*   control thread : run_poc (pull, enrich, buffer, flush, state upsert)  *)
(*   pool workers   : write_to_bq tasks submitted to the ThreadPoolExecutor*)
(*   state sink     : active_vulnerabilities, written by write_to_alloy in *)
(*                    one transaction per batch (commit / rollback)        *)
(*   external       : a process that marks a row of the state sink Fixed   *)
(***************************************************************************)
EXTENDS Integers, Sequences, FiniteSets, Bags, TLC

\* ---------------------------------------------------------------- bounds
MaxRecords == 2     \* largest num_records given to generate_scan_stream
MaxBatch == 2       \* largest batch_size
MaxFixes == 1       \* how often the external process marks a row Fixed
Excess == 1         \* batches beyond the pool width in the pool specification

\* ------------------------------------------------------ program constants
max_workers == 4        \* ThreadPoolExecutor(max_workers=4)
Services == 10          \* asset_num % 10
RegionSplit == 50       \* asset_num < 50

\* ------------------------------------------------------------ identifiers
\* An asset_id is modelled by its "-"-separated parts (what split("-")
\* returns).  A part is a natural number when int() accepts it and Text
\* when int() raises ValueError on it.
Text == 0 - 1

AssetId(n) == <<Text, n>>

\* The findings generate_scan_stream may yield (asset, cve, score in tenths,
\* severity); scan_id and scan_date are added when the record is produced.
Findings ==
  { [asset_id |-> AssetId(3),  cve_id |-> 1111, cvss_score |-> 40,  severity |-> "Medium"],
    [asset_id |-> AssetId(53), cve_id |-> 1111, cvss_score |-> 100, severity |-> "Critical"],
    [asset_id |-> AssetId(4),  cve_id |-> 2222, cvss_score |-> 75,  severity |-> "High"] }

\* Findings of a source that does not keep the asset-N format:
\* "asset" (no separator) and "asset-x" (no numeric suffix).
MalformedFindings ==
  { [asset_id |-> <<Text>>,       cve_id |-> 1111, cvss_score |-> 40, severity |-> "Medium"],
    [asset_id |-> <<Text, Text>>, cve_id |-> 2222, cvss_score |-> 75, severity |-> "High"] }

VARIABLES
  pc,            \* position of the control thread in run_poc
  num_records,   \* length of the stream (TOTAL_RECORDS)
  batch_size,    \* run_poc's batch_size
  produced,      \* number of records the generator has yielded
  now,           \* clock read by datetime.now() / NOW()
  raw_record,    \* the record pulled last (a sequence of length 0 or 1)
  batch_buffer,  \* run_poc's batch_buffer
  current_batch, \* run_poc's current_batch
  tasks,         \* futures of the executor, in submission order
  bq,            \* rows of the archive table
  table,         \* committed rows of active_vulnerabilities, by key
  txn,           \* rows written by the open transaction of alloy_conn
  txn_now,       \* NOW() of the open transaction
  conn_open,     \* alloy_conn is open
  pulled,        \* history: the raw records pulled so far
  alloy_calls,   \* history: write_to_alloy invocations, in order
  fixed_at,      \* history: when the external process marked a key Fixed
  fixes          \* history: number of external Fixed markings

vars == <<pc, num_records, batch_size, produced, now, raw_record, batch_buffer,
          current_batch, tasks, bq, table, txn, txn_now, conn_open, pulled,
          alloy_calls, fixed_at, fixes>>

ctl == <<num_records, batch_size>>

\* ------------------------------------------------------------- enrichment
\* int(record["asset_id"].split("-")[1]) succeeds
WellFormed(asset_id) == Len(asset_id) >= 2 /\ asset_id[2] >= 0

asset_num(asset_id) == asset_id[2]

\* mutant: the owner rule with the parity test inverted
enrich_record_odd(record) ==
  LET n == asset_num(record.asset_id) IN
  [scan_id |-> record.scan_id, scan_date |-> record.scan_date,
   asset_id |-> record.asset_id, cve_id |-> record.cve_id,
   cvss_score |-> record.cvss_score, severity |-> record.severity,
   summary |-> record.summary,
   stable_identity |-> n % Services,
   team_owner |-> IF n % 2 = 1 THEN "Checkout Team" ELSE "Platform Team",
   region |-> IF n < RegionSplit THEN "us-east1" ELSE "europe-west2"]

enrich_record(record) ==
  LET n == asset_num(record.asset_id) IN
  [scan_id |-> record.scan_id, scan_date |-> record.scan_date,
   asset_id |-> record.asset_id, cve_id |-> record.cve_id,
   cvss_score |-> record.cvss_score, severity |-> record.severity,
   summary |-> record.summary,
   stable_identity |-> n % Services,
   team_owner |-> IF n % 2 = 0 THEN "Checkout Team" ELSE "Platform Team",
   region |-> IF n < RegionSplit THEN "us-east1" ELSE "europe-west2"]

\* --------------------------------------------------------- state upsert
KeyOf(r) == <<r.stable_identity, r.cve_id>>

data_tuple(r) ==
  [stable_identity |-> r.stable_identity, asset_id |-> r.asset_id,
   team_owner |-> r.team_owner, region |-> r.region, cve_id |-> r.cve_id,
   cvss_score |-> r.cvss_score, severity |-> r.severity, summary |-> r.summary]

data_tuples(batch) == [i \in 1..Len(batch) |-> data_tuple(batch[i])]

\* VALUES (..., 'Open', NOW(), NOW(), %s)
InsertRow(d, t) ==
  [technical_id |-> d.asset_id, team_owner |-> d.team_owner, region |-> d.region,
   cvss_score |-> d.cvss_score, severity |-> d.severity, status |-> "Open",
   first_seen |-> t, last_seen |-> t, finding_summary |-> d.summary]

\* mutant: the conflict clause keeps the stored status
ConflictStatusKept(status) == status

\* status = CASE WHEN status = 'Fixed' THEN 'Open' ELSE status END
ConflictStatus(status) == IF status = "Fixed" THEN "Open" ELSE status

\* mutant: the conflict clause also takes severity from the new finding
ConflictUpdateSeverity(row, d, t) ==
  [row EXCEPT !.last_seen = t,
              !.technical_id = d.asset_id,
              !.severity = d.severity,
              !.status = ConflictStatus(row.status)]

\* ON CONFLICT (stable_identity, cve_id) DO UPDATE SET ...
ConflictUpdate(row, d, t) ==
  [row EXCEPT !.last_seen = t,
              !.technical_id = d.asset_id,
              !.status = ConflictStatus(row.status)]

\* One execution of upsert_sql inside the transaction: the statement sees the
\* transaction's own writes and, for the other keys, the committed rows.
Execute(tx, tbl, d, t) ==
  LET k == <<d.stable_identity, d.cve_id>>
      row == IF k \in DOMAIN tx THEN ConflictUpdate(tx[k], d, t)
             ELSE IF k \in DOMAIN tbl THEN ConflictUpdate(tbl[k], d, t)
             ELSE InsertRow(d, t)
  IN  (k :> row) @@ tx

\* mutant: the statements of a batch run last record first
RECURSIVE executemany_reversed(_, _, _, _)
executemany_reversed(tx, tbl, tuples, t) ==
  IF tuples = <<>> THEN tx
  ELSE executemany_reversed(Execute(tx, tbl, tuples[Len(tuples)], t), tbl,
                            SubSeq(tuples, 1, Len(tuples) - 1), t)

RECURSIVE executemany(_, _, _, _)
executemany(tx, tbl, tuples, t) ==
  IF tuples = <<>> THEN tx
  ELSE executemany(Execute(tx, tbl, Head(tuples), t), tbl, Tail(tuples), t)

\* conn.commit(): the transaction's rows replace the committed ones
Committed(tbl, tx) == tx @@ tbl

\* mutant: an autocommit connection, on which rollback discards nothing
RolledBackAutocommit(tbl, tx) == tx @@ tbl

\* conn.rollback(): the transaction's rows are discarded
RolledBack(tbl, tx) == tbl

Empty == <<>>

\* ---------------------------------------------------------- archive rows
\* rows_to_insert of write_to_bq; findings_json is the serialized item.  The
\* ingestion_time column (the worker's wall clock) is written and never read.
rows_to_insert(batch) ==
  [i \in 1..Len(batch) |->
     [asset_id |-> batch[i].asset_id, scan_date |-> batch[i].scan_date,
      cve_id |-> batch[i].cve_id, findings_json |-> batch[i]]]

BagOfSeq(rows) ==
  LET rng == {rows[i] : i \in DOMAIN rows}
  IN  [r \in rng |-> Cardinality({i \in DOMAIN rows : rows[i] = r})]

Finished(task) == task.state \in {"ok", "errors", "raised"}

Running == {i \in DOMAIN tasks : tasks[i].state = "running"}

Queued == {i \in DOMAIN tasks : tasks[i].state = "queued"}

\* mutant: shutdown(wait=False)
JoinNoWait == TRUE

\* executor.shutdown(wait=True) returns once every future is finished
JoinReady == \A i \in DOMAIN tasks : Finished(tasks[i])

\* ------------------------------------------------------------------ Init
\* the state in which run_poc is entered, whatever the two parameters
Entry ==
  /\ pc = "idle"
  /\ produced = 0
  /\ now = 1
  /\ raw_record = <<>>
  /\ batch_buffer = <<>>
  /\ current_batch = <<>>
  /\ tasks = <<>>
  /\ bq = EmptyBag
  /\ table = Empty
  /\ txn = Empty
  /\ txn_now = 0
  /\ conn_open = FALSE
  /\ pulled = <<>>
  /\ alloy_calls = <<>>
  /\ fixed_at = Empty
  /\ fixes = 0

Init ==
  /\ num_records \in 0..MaxRecords
  /\ batch_size \in 1..MaxBatch
  /\ Entry

\* ------------------------------------------------------- control thread
\* run_poc: bigquery.Client() and psycopg2.connect() succeed
Connect ==
  /\ pc = "idle"
  /\ pc' = "next"
  /\ conn_open' = TRUE
  /\ UNCHANGED <<ctl, produced, now, raw_record, batch_buffer, current_batch,
                 tasks, bq, table, txn, txn_now, pulled, alloy_calls,
                 fixed_at, fixes>>

\* run_poc: creating a client raises; the run never starts
ConnectRaises ==
  /\ pc = "idle"
  /\ pc' = "no_connection"
  /\ UNCHANGED <<ctl, produced, now, raw_record, batch_buffer, current_batch,
                 tasks, bq, table, txn, txn_now, conn_open, pulled,
                 alloy_calls, fixed_at, fixes>>

\* the record generate_scan_stream yields for finding f
Yield(f) ==
  [scan_id |-> produced + 1, scan_date |-> now, asset_id |-> f.asset_id,
   cve_id |-> f.cve_id, cvss_score |-> f.cvss_score, severity |-> f.severity,
   summary |-> <<f.cve_id, f.asset_id>>]

PullFrom(S) ==
  /\ pc = "next"
  /\ produced < num_records
  /\ \E f \in S :
       /\ raw_record' = <<Yield(f)>>
       /\ pulled' = Append(pulled, Yield(f))
  /\ produced' = produced + 1
  /\ now' = now + 1
  /\ pc' = "enrich"
  /\ UNCHANGED <<ctl, batch_buffer, current_batch, tasks, bq, table, txn,
                 txn_now, conn_open, alloy_calls, fixed_at, fixes>>

\* for raw_record in generate_scan_stream(TOTAL_RECORDS)
Pull == PullFrom(Findings)

\* the same loop fed by a source that may yield malformed identifiers
PullExternal == PullFrom(MalformedFindings)

\* the generator is exhausted: the for loop ends and the with block exits
Exhausted ==
  /\ pc = "next"
  /\ produced = num_records
  /\ pc' = "join"
  /\ UNCHANGED <<ctl, produced, now, raw_record, batch_buffer, current_batch,
                 tasks, bq, table, txn, txn_now, conn_open, pulled,
                 alloy_calls, fixed_at, fixes>>

\* Step 1: enrich and append; Step 2: is the buffer full
Enrich ==
  /\ pc = "enrich"
  /\ WellFormed(raw_record[1].asset_id)
  /\ batch_buffer' = Append(batch_buffer, enrich_record(raw_record[1]))
  /\ pc' = IF Len(batch_buffer') >= batch_size THEN "flush" ELSE "next"
  /\ UNCHANGED <<ctl, produced, now, raw_record, current_batch, tasks, bq,
                 table, txn, txn_now, conn_open, pulled, alloy_calls,
                 fixed_at, fixes>>

\* enrich_record raises IndexError / ValueError: nothing in run_poc catches
\* it, the with block unwinds
EnrichRaises ==
  /\ pc = "enrich"
  /\ ~WellFormed(raw_record[1].asset_id)
  /\ pc' = "unwind"
  /\ UNCHANGED <<ctl, produced, now, raw_record, batch_buffer, current_batch,
                 tasks, bq, table, txn, txn_now, conn_open, pulled,
                 alloy_calls, fixed_at, fixes>>

\* mutant: the flush without batch_buffer.clear()
FlushKeepsBuffer ==
  /\ pc = "flush"
  /\ current_batch' = batch_buffer
  /\ batch_buffer' = batch_buffer
  /\ tasks' = Append(tasks, [batch |-> batch_buffer, state |-> "queued"])
  /\ pc' = "alloy_call"
  /\ UNCHANGED <<ctl, produced, now, raw_record, bq, table, txn, txn_now,
                 conn_open, pulled, alloy_calls, fixed_at, fixes>>

\* mutant: write_to_bq(bq_client, current_batch) called in place instead of
\* being submitted to the pool
FlushInline ==
  /\ pc = "flush"
  /\ current_batch' = batch_buffer
  /\ batch_buffer' = <<>>
  /\ tasks' = Append(tasks, [batch |-> batch_buffer, state |-> "ok"])
  /\ bq' = bq (+) BagOfSeq(rows_to_insert(batch_buffer))
  /\ pc' = "alloy_call"
  /\ UNCHANGED <<ctl, produced, now, raw_record, table, txn, txn_now,
                 conn_open, pulled, alloy_calls, fixed_at, fixes>>

\* current_batch = list(batch_buffer); batch_buffer.clear();
\* executor.submit(write_to_bq, bq_client, current_batch)
Flush ==
  /\ pc = "flush"
  /\ current_batch' = batch_buffer
  /\ batch_buffer' = <<>>
  /\ tasks' = Append(tasks, [batch |-> batch_buffer, state |-> "queued"])
  /\ pc' = "alloy_call"
  /\ UNCHANGED <<ctl, produced, now, raw_record, bq, table, txn, txn_now,
                 conn_open, pulled, alloy_calls, fixed_at, fixes>>

\* mutant: the control thread waits for the batch's archive future before it
\* calls write_to_alloy
AlloyCursorAfterArchive ==
  /\ pc = "alloy_call"
  /\ Finished(tasks[Len(tasks)])
  /\ alloy_calls' = Append(alloy_calls,
                      [batch |-> current_batch, at |-> 0, result |-> "running"])
  /\ pc' = "alloy_exec"
  /\ UNCHANGED <<ctl, produced, now, raw_record, batch_buffer, current_batch,
                 tasks, bq, table, txn, txn_now, conn_open, pulled,
                 fixed_at, fixes>>

\* mutant: write_to_alloy is submitted to the pool like write_to_bq and the
\* loop goes on without waiting for it
AlloyCursorDetached ==
  /\ pc = "alloy_call"
  /\ alloy_calls' = Append(alloy_calls,
                      [batch |-> current_batch, at |-> 0, result |-> "running"])
  /\ pc' = "next"
  /\ UNCHANGED <<ctl, produced, now, raw_record, batch_buffer, current_batch,
                 tasks, bq, table, txn, txn_now, conn_open, pulled,
                 fixed_at, fixes>>

\* write_to_alloy is called right after submit returns, which does not wait
\* for the task: cursor = conn.cursor()
AlloyCursor ==
  /\ pc = "alloy_call"
  /\ alloy_calls' = Append(alloy_calls,
                      [batch |-> current_batch, at |-> 0, result |-> "running"])
  /\ pc' = "alloy_exec"
  /\ UNCHANGED <<ctl, produced, now, raw_record, batch_buffer, current_batch,
                 tasks, bq, table, txn, txn_now, conn_open, pulled,
                 fixed_at, fixes>>

\* conn.cursor() raises: it is outside the try block, write_to_alloy raises
AlloyCursorRaises ==
  /\ pc = "alloy_call"
  /\ alloy_calls' = Append(alloy_calls,
                      [batch |-> current_batch, at |-> 0, result |-> "raised"])
  /\ pc' = "unwind"
  /\ UNCHANGED <<ctl, produced, now, raw_record, batch_buffer, current_batch,
                 tasks, bq, table, txn, txn_now, conn_open, pulled,
                 fixed_at, fixes>>

SetLast(calls, t, res) ==
  [calls EXCEPT ![Len(calls)] = [@ EXCEPT !.at = t, !.result = res]]

\* cursor.executemany(upsert_sql, data_tuples) runs every statement
ExecuteMany ==
  /\ pc = "alloy_exec"
  /\ txn' = executemany(Empty, table, data_tuples(current_batch), now)
  /\ txn_now' = now
  /\ now' = now + 1
  /\ alloy_calls' = SetLast(alloy_calls, now, "running")
  /\ pc' = "alloy_commit"
  /\ UNCHANGED <<ctl, produced, raw_record, batch_buffer, current_batch,
                 tasks, bq, table, conn_open, pulled, fixed_at, fixes>>

\* cursor.executemany raises after j statements have run
ExecuteManyRaises ==
  /\ pc = "alloy_exec"
  /\ \E j \in 0..(Len(current_batch) - 1) :
       txn' = executemany(Empty, table,
                          SubSeq(data_tuples(current_batch), 1, j), now)
  /\ txn_now' = now
  /\ now' = now + 1
  /\ alloy_calls' = SetLast(alloy_calls, now, "running")
  /\ pc' = "alloy_rollback"
  /\ UNCHANGED <<ctl, produced, raw_record, batch_buffer, current_batch,
                 tasks, bq, table, conn_open, pulled, fixed_at, fixes>>

\* conn.commit() succeeds; write_to_alloy returns
Commit ==
  /\ pc = "alloy_commit"
  /\ table' = Committed(table, txn)
  /\ txn' = Empty
  /\ alloy_calls' = SetLast(alloy_calls, txn_now, "committed")
  /\ pc' = "next"
  /\ UNCHANGED <<ctl, produced, now, raw_record, batch_buffer, current_batch,
                 tasks, bq, txn_now, conn_open, pulled, fixed_at, fixes>>

\* conn.commit() raises: except branch
CommitRaises ==
  /\ pc = "alloy_commit"
  /\ pc' = "alloy_rollback"
  /\ UNCHANGED <<ctl, produced, now, raw_record, batch_buffer, current_batch,
                 tasks, bq, table, txn, txn_now, conn_open, pulled,
                 alloy_calls, fixed_at, fixes>>

\* conn.rollback() succeeds; the error is logged, write_to_alloy returns
Rollback ==
  /\ pc = "alloy_rollback"
  /\ table' = RolledBack(table, txn)
  /\ txn' = Empty
  /\ alloy_calls' = SetLast(alloy_calls, txn_now, "rolledback")
  /\ pc' = "next"
  /\ UNCHANGED <<ctl, produced, now, raw_record, batch_buffer, current_batch,
                 tasks, bq, txn_now, conn_open, pulled, fixed_at, fixes>>

\* conn.rollback() raises inside the except branch: write_to_alloy raises;
\* the server discards the transaction of the broken connection
RollbackRaises ==
  /\ pc = "alloy_rollback"
  /\ table' = RolledBack(table, txn)
  /\ txn' = Empty
  /\ alloy_calls' = SetLast(alloy_calls, txn_now, "raised")
  /\ pc' = "unwind"
  /\ UNCHANGED <<ctl, produced, now, raw_record, batch_buffer, current_batch,
                 tasks, bq, txn_now, conn_open, pulled, fixed_at, fixes>>

\* normal exit of the with block joins the pool; then the completion is
\* logged and alloy_conn.close() runs
Join ==
  /\ pc = "join"
  /\ JoinReady
  /\ pc' = "done"
  /\ conn_open' = FALSE
  /\ UNCHANGED <<ctl, produced, now, raw_record, batch_buffer, current_batch,
                 tasks, bq, table, txn, txn_now, pulled, alloy_calls,
                 fixed_at, fixes>>

\* exit of the with block by an exception joins the pool and re-raises:
\* run_poc ends without the completion log and without closing alloy_conn
Unwind ==
  /\ pc = "unwind"
  /\ JoinReady
  /\ pc' = "aborted"
  /\ UNCHANGED <<ctl, produced, now, raw_record, batch_buffer, current_batch,
                 tasks, bq, table, txn, txn_now, conn_open, pulled,
                 alloy_calls, fixed_at, fixes>>

\* --------------------------------------------------------- pool workers
SetTask(i, st) == [tasks EXCEPT ![i].state = st]

archive == <<ctl, pc, produced, now, raw_record, batch_buffer, current_batch,
             table, txn, txn_now, conn_open, pulled, alloy_calls, fixed_at,
             fixes>>

\* mutant: a pool that starts a thread for every submitted task
TaskStartUnbounded(i) ==
  /\ tasks[i].state = "queued"
  /\ \A j \in Queued : i <= j
  /\ tasks' = SetTask(i, "running")
  /\ UNCHANGED <<archive, bq>>

\* a free worker takes the oldest queued task and runs write_to_bq
TaskStart(i) ==
  /\ tasks[i].state = "queued"
  /\ \A j \in Queued : i <= j
  /\ Cardinality(Running) < max_workers
  /\ tasks' = SetTask(i, "running")
  /\ UNCHANGED <<archive, bq>>

\* mutant: batch_buffer itself is submitted, so the task reads the list the
\* control thread clears and refills
TaskViewAliased(i) == batch_buffer

\* the list the task reads: current_batch = list(batch_buffer) is a list of
\* its own, which no later statement changes
TaskView(i) == tasks[i].batch

\* insert_rows_json returns no errors
ArchiveOK(i) ==
  /\ tasks[i].state = "running"
  /\ bq' = bq (+) BagOfSeq(rows_to_insert(TaskView(i)))
  /\ tasks' = SetTask(i, "ok")
  /\ UNCHANGED archive

\* mutant: a batch whose insert returned errors is put back in the queue
ArchiveErrorsRetry(i) ==
  /\ tasks[i].state = "running"
  /\ tasks' = SetTask(i, "queued")
  /\ UNCHANGED <<archive, bq>>

\* insert_rows_json returns errors: logged, the batch is dropped
ArchiveErrors(i) ==
  /\ tasks[i].state = "running"
  /\ tasks' = SetTask(i, "errors")
  /\ UNCHANGED <<archive, bq>>

\* write_to_bq raises: the exception stays in the future, which nothing reads
ArchiveRaises(i) ==
  /\ tasks[i].state = "running"
  /\ tasks' = SetTask(i, "raised")
  /\ UNCHANGED <<archive, bq>>

\* ----------------------------------------------------- external process
\* the process outside the pipeline that marks a finding resolved; a row the
\* open transaction has written is locked
MarkFixed(k) ==
  /\ fixes < MaxFixes
  /\ k \in DOMAIN table
  /\ k \notin DOMAIN txn
  /\ table[k].status = "Open"
  /\ table' = [table EXCEPT ![k].status = "Fixed"]
  /\ fixed_at' = (k :> now) @@ fixed_at
  /\ fixes' = fixes + 1
  /\ UNCHANGED <<ctl, pc, produced, now, raw_record, batch_buffer,
                 current_batch, tasks, bq, txn, txn_now, conn_open, pulled,
                 alloy_calls>>

\* ------------------------------------------------------------------ Next
Next ==
  \/ Connect
  \/ ConnectRaises
  \/ Pull
  \/ Exhausted
  \/ Enrich
  \/ Flush
  \/ AlloyCursor
  \/ AlloyCursorRaises
  \/ ExecuteMany
  \/ ExecuteManyRaises
  \/ Commit
  \/ CommitRaises
  \/ Rollback
  \/ RollbackRaises
  \/ Join
  \/ Unwind
  \/ \E i \in DOMAIN tasks : TaskStart(i)
  \/ \E i \in DOMAIN tasks : ArchiveOK(i)
  \/ \E i \in DOMAIN tasks : ArchiveErrors(i)
  \/ \E i \in DOMAIN tasks : ArchiveRaises(i)
  \/ \E k \in DOMAIN table : MarkFixed(k)

Spec == Init /\ [][Next]_vars

\* the steps of the control thread and those of the pool's workers
ControlNext ==
  \/ Connect \/ ConnectRaises \/ Pull \/ Exhausted \/ Enrich \/ Flush
  \/ AlloyCursor \/ AlloyCursorRaises \/ ExecuteMany \/ ExecuteManyRaises
  \/ Commit \/ CommitRaises \/ Rollback \/ RollbackRaises \/ Join \/ Unwind

WorkerNext ==
  \E i \in DOMAIN tasks :
     TaskStart(i) \/ ArchiveOK(i) \/ ArchiveErrors(i) \/ ArchiveRaises(i)

\* every sink call returns or raises, the threads are scheduled fairly
SpecFair == Spec /\ WF_vars(ControlNext) /\ WF_vars(WorkerNext)

\* the pipeline fed by an external source that may yield malformed identifiers
NextExternal ==
  \/ Next
  \/ PullExternal
  \/ EnrichRaises

SpecExternal == Init /\ [][NextExternal]_vars

\* the pipeline on a stream of more one-record batches than the pool has
\* workers, in a run where the state sink does not fail: the schedules of the
\* pool beside the control thread
InitPool ==
  /\ num_records = max_workers + Excess
  /\ batch_size = 1
  /\ Entry

PullOne == PullFrom({[asset_id |-> AssetId(3), cve_id |-> 1111,
                      cvss_score |-> 40, severity |-> "Medium"]})

NextPool ==
  \/ Connect
  \/ PullOne
  \/ Exhausted
  \/ Enrich
  \/ Flush
  \/ AlloyCursor
  \/ ExecuteMany
  \/ Commit
  \/ Join
  \/ \E i \in DOMAIN tasks : TaskStart(i)
  \/ \E i \in DOMAIN tasks : ArchiveOK(i)
  \/ \E i \in DOMAIN tasks : ArchiveErrors(i)

SpecPool == InitPool /\ [][NextPool]_vars

\* ================================================================ claims
Last(s) == s[Len(s)]

RECURSIVE Flatten(_)
Flatten(ss) == IF ss = <<>> THEN <<>> ELSE Head(ss) \o Flatten(Tail(ss))

Dispatched == [i \in DOMAIN tasks |-> tasks[i].batch]

ControlStep == pc' # pc

CommitStep == pc = "alloy_commit" /\ pc' = "next"

InAlloy == pc \in {"alloy_call", "alloy_exec", "alloy_commit", "alloy_rollback"}

\* C1: a committed upsert leaves every key of the batch Open (from Fixed,
\* from Open and from absent alike), and no step of the pipeline makes a row
\* Fixed.
C1_StatusMonotone ==
  [][/\ CommitStep =>
          \A i \in DOMAIN current_batch :
             /\ KeyOf(current_batch[i]) \in DOMAIN table'
             /\ table'[KeyOf(current_batch[i])].status = "Open"
     /\ ControlStep =>
          \A k \in DOMAIN table' :
             table'[k].status = "Fixed" =>
               k \in DOMAIN table /\ table[k].status = "Fixed"]_vars

\* C1 witness: a row that was marked Fixed has been reopened by an upsert
C1_Reopened ==
  \E k \in DOMAIN fixed_at :
     /\ table[k].status = "Open"
     /\ table[k].last_seen >= fixed_at[k]
     /\ pc = "next"

\* the records of the batch for key k were all produced before k was fixed
StaleFor(k) ==
  /\ k \in DOMAIN fixed_at
  /\ k \in DOMAIN table
  /\ table[k].status = "Fixed"
  /\ \A i \in DOMAIN current_batch :
        KeyOf(current_batch[i]) = k => current_batch[i].scan_date < fixed_at[k]

\* C2: a row marked Fixed stays Fixed when the upsert that reaches it carries
\* only findings produced before the fix.
C2_StaleKeepsFixed ==
  [][CommitStep =>
       \A k \in DOMAIN txn : StaleFor(k) => table'[k].status = "Fixed"]_vars

\* C3: when the run is done, ceil(L/n) batches were dispatched to both
\* writers and together they hold every pulled record once, in order.
C3_AllDispatched ==
  pc = "done" =>
    /\ Len(tasks) = (num_records + batch_size - 1) \div batch_size
    /\ Len(alloy_calls) = Len(tasks)
    /\ Flatten(Dispatched) = [i \in DOMAIN pulled |-> enrich_record(pulled[i])]

\* the asset_id of the last record of the batch with key k
LastAssetFor(batch, k) ==
  LET I == {i \in DOMAIN batch : KeyOf(batch[i]) = k}
  IN  batch[CHOOSE i \in I : \A j \in I : j <= i].asset_id

\* C4: a step of write_to_alloy that is not the successful commit leaves the
\* committed table as it was; the successful commit applies every record of
\* the batch.
C4_AllOrNothing ==
  [][(InAlloy /\ ControlStep) =>
       IF CommitStep
       THEN \A i \in DOMAIN current_batch :
              LET k == KeyOf(current_batch[i]) IN
              /\ k \in DOMAIN table'
              /\ table'[k].last_seen = txn_now
              /\ table'[k].technical_id = LastAssetFor(current_batch, k)
       ELSE table' = table]_vars

\* C4 witness: a batch of two records failed after its first statement and
\* was rolled back, and its key is not in the table
C4_RolledBackPartial ==
  /\ pc = "next"
  /\ alloy_calls # <<>>
  /\ Last(alloy_calls).result = "rolledback"
  /\ Len(Last(alloy_calls).batch) = 2
  /\ KeyOf(Last(alloy_calls).batch[1]) \notin DOMAIN table

\* C5: no sink failure aborts the run.
C5_NeverAborts == pc \notin {"unwind", "aborted"}

\* C6: the state writer is invoked on every dispatched batch, and its call is
\* never held back by the archive task of that batch, whatever its state.
C6_IndependentDomains ==
  /\ pc = "alloy_call" => ENABLED AlloyCursor
  /\ \A i \in DOMAIN tasks :
        (i < Len(tasks) \/ pc # "alloy_call") =>
          /\ i \in DOMAIN alloy_calls
          /\ alloy_calls[i].batch = tasks[i].batch

\* C6 witness: the state write of one batch committed although its archive
\* write failed, and that of another committed while its archive write ran
C6_CommittedBesideArchive ==
  /\ \E i \in DOMAIN alloy_calls :
        alloy_calls[i].result = "committed" /\ tasks[i].state = "errors"
  /\ \E i \in DOMAIN alloy_calls :
        alloy_calls[i].result = "committed" /\ tasks[i].state = "running"

\* C7: in Done (completion logged, connection closed) no archive task is
\* queued or running.
C7_JoinAtDone ==
  (pc = "done" \/ (pc # "idle" /\ ~conn_open)) =>
    \A i \in DOMAIN tasks : tasks[i].state \in {"ok", "errors", "raised"}

\* C7 witness: Done with two archive tasks, one of them failed
C7_DoneAfterTasks ==
  /\ pc = "done"
  /\ Len(tasks) = 2
  /\ \E i \in DOMAIN tasks : tasks[i].state = "raised"

\* C8: a committed upsert changes, of an existing row, only last_seen,
\* technical_id and status (Fixed to Open), and touches no row of a key that
\* is not in the batch.
C8_ConflictFrame ==
  [][CommitStep =>
       \A k \in DOMAIN table :
          IF k \in {KeyOf(current_batch[i]) : i \in DOMAIN current_batch}
          THEN table'[k] =
                 [table[k] EXCEPT
                    !.last_seen = table'[k].last_seen,
                    !.technical_id = table'[k].technical_id,
                    !.status = IF table[k].status = "Fixed" THEN "Open"
                               ELSE table[k].status]
          ELSE table'[k] = table[k]]_vars

\* C8 witness: a row created by asset-3 and later refreshed by asset-53,
\* whose score, severity and region differ, beside a row of another key
C8_RefreshedRow ==
  \E k \in DOMAIN table :
     /\ table[k].first_seen < table[k].last_seen
     /\ table[k].technical_id = AssetId(53)
     /\ table[k].cvss_score = 40
     /\ table[k].region = "us-east1"
     /\ pc = "next"

ObservedKeys == {KeyOf(enrich_record(pulled[i])) : i \in DOMAIN pulled}

NoSinkFailure ==
  /\ \A i \in DOMAIN tasks : tasks[i].state = "ok"
  /\ \A i \in DOMAIN alloy_calls : alloy_calls[i].result = "committed"

\* the scan_id of the final occurrence of key k in the stream
FinalOccurrence(k) ==
  LET I == {i \in DOMAIN pulled : KeyOf(enrich_record(pulled[i])) = k}
  IN  CHOOSE i \in I : \A j \in I : j <= i

\* C9: a run without sink failure ends with one row per key observed in the
\* stream, last_seen being the time of the upsert that carried the key's
\* final occurrence.
C9_EndState ==
  (pc = "done" /\ NoSinkFailure) =>
    /\ DOMAIN table = ObservedKeys
    /\ \A k \in ObservedKeys :
          \E c \in DOMAIN alloy_calls :
             /\ \E i \in DOMAIN alloy_calls[c].batch :
                   alloy_calls[c].batch[i].scan_id = FinalOccurrence(k)
             /\ table[k].last_seen = alloy_calls[c].at

\* C10: a record with a malformed identifier is skipped: it enters no batch
\* and the coordinator pulls the next record.
C10_MalformedSkipped ==
  [][(pc = "enrich" /\ ~WellFormed(raw_record[1].asset_id) /\ ControlStep) =>
       (pc' = "next" /\ batch_buffer' = batch_buffer)]_vars

\* the enriched records the run holds: buffered or dispatched
Enriched ==
  {batch_buffer[i] : i \in DOMAIN batch_buffer}
    \cup UNION {{tasks[i].batch[j] : j \in DOMAIN tasks[i].batch} : i \in DOMAIN tasks}

\* C11: every enriched record of asset-N has stable_identity N mod 10, the
\* owner given by the parity of N and the region given by N < 50, two records
\* of the same asset agree on the three, and the raw fields are carried over.
C11_EnrichDeterministic ==
  /\ \A r \in Enriched :
        LET n == r.asset_id[2]
            raw == pulled[r.scan_id]
        IN  /\ r.stable_identity = n % 10
            /\ r.team_owner = (IF n % 2 = 0 THEN "Checkout Team" ELSE "Platform Team")
            /\ r.region = (IF n < 50 THEN "us-east1" ELSE "europe-west2")
            /\ \A f \in DOMAIN raw : r[f] = raw[f]
            /\ DOMAIN r = DOMAIN raw \cup {"stable_identity", "team_owner", "region"}
  /\ \A r1, r2 \in Enriched :
        r1.asset_id = r2.asset_id =>
          /\ r1.stable_identity = r2.stable_identity
          /\ r1.team_owner = r2.team_owner
          /\ r1.region = r2.region

\* C11 witness: two distinct records of the same asset have been enriched
C11_SameAssetTwice ==
  \E r1, r2 \in Enriched :
     r1.scan_id # r2.scan_id /\ r1.asset_id = r2.asset_id

\* ---- what the run reports: its logging calls
\* logging.error("BigQuery Errors: ...")
ReportedArchiveFailures ==
  Cardinality({i \in DOMAIN tasks : tasks[i].state = "errors"})

\* logging.error("AlloyDB Error: ...")
ReportedStateFailures ==
  Cardinality({i \in DOMAIN alloy_calls : alloy_calls[i].result = "rolledback"})

\* C12: at Done the run has reported every failed batch once: the failed
\* archive batches and the failed state batches are all among the reported
\* failures.
C12_RunTotals ==
  pc = "done" =>
    /\ ReportedArchiveFailures =
         Cardinality({i \in DOMAIN tasks : tasks[i].state # "ok"})
    /\ ReportedStateFailures =
         Cardinality({i \in DOMAIN alloy_calls :
                        alloy_calls[i].result # "committed"})

\* C13: for every batch the archive task is submitted first and the submit
\* returns with the task still queued, then the state writer is invoked on
\* the same batch, and the next record is pulled only after that call has
\* committed or rolled back.
C13_DispatchOrder ==
  [][/\ (pc = "flush" /\ ControlStep) =>
          /\ pc' = "alloy_call"
          /\ Len(tasks') = Len(tasks) + 1
          /\ Last(tasks').state = "queued"
          /\ Last(tasks').batch = batch_buffer
          /\ alloy_calls' = alloy_calls
          /\ Len(alloy_calls) = Len(tasks)
     /\ (pc = "alloy_call" /\ ControlStep) =>
          /\ Len(alloy_calls') = Len(tasks)
          /\ Last(alloy_calls').batch = Last(tasks).batch
     /\ (pc' = "enrich" /\ ControlStep) =>
          /\ Len(alloy_calls) = Len(tasks)
          /\ \A i \in DOMAIN alloy_calls :
                alloy_calls[i].result \in {"committed", "rolledback"}]_vars

\* C13 witness: the next record has been pulled after the state writer
\* returned, while the archive task of the batch is still queued
C13_PulledWhileQueued ==
  /\ pc = "enrich"
  /\ Len(tasks) = 1
  /\ tasks[1].state = "queued"
  /\ alloy_calls[1].result \in {"committed", "rolledback"}

\* the state-writer calls are one after the other
Serialized(calls) ==
  /\ \A i \in DOMAIN calls : i < Len(calls) => calls[i].result # "running"
  /\ \A i, j \in DOMAIN calls :
        (i < j /\ calls[j].at > 0) => (calls[i].at > 0 /\ calls[i].at < calls[j].at)
  /\ \A i \in DOMAIN calls : calls[i].batch = tasks[i].batch

\* C14: at most one write_to_alloy is in progress, and only while the control
\* thread is inside it; call k has committed or rolled back before call k+1
\* begins, in batch-arrival order; no step of a pool worker touches the state
\* sink.
C14_StateWritesSerialized ==
  [][/\ Serialized(alloy_calls')
     /\ (\E i \in DOMAIN alloy_calls' : alloy_calls'[i].result = "running") =>
          pc' \in {"alloy_exec", "alloy_commit", "alloy_rollback"}
     /\ txn' # Empty => pc' \in {"alloy_commit", "alloy_rollback"}
     /\ (tasks' # tasks /\ pc' = pc) =>
          UNCHANGED <<alloy_calls, txn, table>>]_vars

\* C14 witness: the second state write is in progress after the first one
\* ended, while the archive task of the first batch is running
C14_SecondWriteBesideArchive ==
  /\ Len(alloy_calls) = 2
  /\ pc = "alloy_commit"
  /\ alloy_calls[1].result = "rolledback"
  /\ alloy_calls[2].result = "running"
  /\ tasks[1].state = "running"

\* C15: at most 4 archive writes run at once; a task submitted while the
\* workers are busy waits in the queue, none is dropped; and the flush is
\* never held back by a full pool.
C15_BoundedPool ==
  /\ Cardinality(Running) <= 4
  /\ \A i \in Queued : \A j \in DOMAIN tasks : j > i => j \in Queued
  /\ (Queued # {} /\ Cardinality(Running) < 4) =>
        \E i \in Queued : ENABLED TaskStart(i)
  /\ Len(tasks) = Len(alloy_calls) + (IF pc = "alloy_call" THEN 1 ELSE 0)
  /\ Len(Flatten(Dispatched)) =
       Len(pulled) - Len(batch_buffer) - (IF pc = "enrich" THEN 1 ELSE 0)
  /\ pc = "flush" => ENABLED Flush

\* C15 witness: every worker is busy, a fifth task waits in the queue, and
\* the control thread has finished streaming
C15_PoolFull ==
  /\ Cardinality(Running) = 4
  /\ Queued # {}
  /\ pc = "join"

\* the rows of the batches whose archive write succeeded, in dispatch order
ArchivedRows(ts) ==
  Flatten([i \in DOMAIN ts |->
             IF ts[i].state = "ok" THEN rows_to_insert(ts[i].batch) ELSE <<>>])

Rank(state) ==
  CASE state = "queued" -> 0
    [] state = "running" -> 1
    [] OTHER -> 2

\* C16: the archive table holds, as a multiset, one row per record of every
\* batch whose insert succeeded and nothing else, whatever the order of the
\* tasks; every record is in one dispatched batch only; a task never goes
\* back in the queue, so a failed batch is dropped.
C16_ArchiveLedger ==
  [][/\ bq' = BagOfSeq(ArchivedRows(tasks'))
     /\ BagCardinality(bq') = Len(ArchivedRows(tasks'))
     /\ \A i, j \in DOMAIN Flatten(Dispatched') :
           i # j => Flatten(Dispatched')[i].scan_id # Flatten(Dispatched')[j].scan_id
     /\ \A i \in DOMAIN tasks :
           /\ i \in DOMAIN tasks'
           /\ tasks'[i].batch = tasks[i].batch
           /\ Rank(tasks'[i].state) >= Rank(tasks[i].state)
           /\ Rank(tasks[i].state) = 2 => tasks'[i].state = tasks[i].state]_vars

\* C16 witness: Done with two batches dispatched and both archived
C16_AllArchived ==
  /\ pc = "done"
  /\ Len(tasks) = 2
  /\ \A i \in DOMAIN tasks : tasks[i].state = "ok"
  /\ BagCardinality(bq) = 2

\* the records of the committed batches, in the order of the calls
CommittedRecords ==
  Flatten([i \in DOMAIN alloy_calls |->
             IF alloy_calls[i].result = "committed" THEN alloy_calls[i].batch
             ELSE <<>>])

\* C17: the table has a row for exactly the keys of the committed batches,
\* and its technical_id is the asset_id of the last record of that key among
\* them, also when the key occurs twice in one batch.
C17_LastSeenTechnicalId ==
  /\ DOMAIN table = {KeyOf(CommittedRecords[i]) : i \in DOMAIN CommittedRecords}
  /\ \A k \in DOMAIN table :
        table[k].technical_id = LastAssetFor(CommittedRecords, k)

\* C17 witness: a committed batch held the same key twice, under two
\* different asset ids
C17_SameKeyTwiceInBatch ==
  /\ pc = "next"
  /\ \E c \in DOMAIN alloy_calls :
        /\ alloy_calls[c].result = "committed"
        /\ Len(alloy_calls[c].batch) = 2
        /\ KeyOf(alloy_calls[c].batch[1]) = KeyOf(alloy_calls[c].batch[2])
        /\ alloy_calls[c].batch[1].asset_id # alloy_calls[c].batch[2].asset_id

\* the scan_id and asset_id of the records of a sequence, in order
Idents(records) ==
  [i \in DOMAIN records |-> <<records[i].scan_id, records[i].asset_id>>]

\* C18: the buffer never holds more than batch_size records and holds fewer
\* when a record is pulled; a flush hands the buffered records over in order
\* to both writers and leaves the buffer empty; the dispatched batches, one
\* after the other, are a prefix of the records pulled, and the buffer is
\* what follows it.
C18_BufferDiscipline ==
  [][/\ Len(batch_buffer') <= batch_size
     /\ (pc = "next" /\ pc' = "enrich") => Len(batch_buffer) < batch_size
     /\ (pc = "flush" /\ ControlStep) =>
          /\ Last(tasks').batch = batch_buffer
          /\ current_batch' = batch_buffer
          /\ batch_buffer' = <<>>
     /\ (pc = "alloy_call" /\ ControlStep) =>
          Last(alloy_calls').batch = Last(tasks).batch
     /\ Idents(Flatten(Dispatched') \o batch_buffer') =
          SubSeq(Idents(pulled'), 1,
                 Len(pulled') - (IF pc' = "enrich" THEN 1 ELSE 0))]_vars

\* C18 witness: a full buffer of two records has just been flushed, in the
\* order in which they were pulled
C18_FlushedInOrder ==
  /\ pc = "alloy_call"
  /\ batch_buffer = <<>>
  /\ Len(current_batch) = 2
  /\ current_batch[1].scan_id = 1
  /\ current_batch[2].scan_id = 2

\* the coordinator's state: Idle, Streaming, Draining, Done
Phase ==
  CASE pc = "idle" -> 0
    [] pc \in {"join", "unwind"} -> 2
    [] pc \in {"done", "aborted", "no_connection"} -> 3
    [] OTHER -> 1

\* C19: the coordinator never goes back to an earlier state, hands no batch
\* to the state writer twice, and a run that has started streaming
\* eventually is Done with the state connection closed.
C19_Progress ==
  /\ [][Phase' >= Phase]_vars
  /\ [](\A i, j \in DOMAIN alloy_calls :
           i # j => alloy_calls[i].batch # alloy_calls[j].batch)
  /\ (pc = "next") ~> (pc = "done" /\ ~conn_open)

\* C20: no step changes a batch once it is dispatched, and the rows a task
\* archives are those of its batch as it was at dispatch, the one the state
\* writer was given, whatever the control thread has done since.
C20_StableSnapshot ==
  [][/\ \A i \in DOMAIN tasks : tasks'[i].batch = tasks[i].batch
     /\ \A i \in DOMAIN alloy_calls : alloy_calls'[i].batch = alloy_calls[i].batch
     /\ \A i \in DOMAIN tasks :
           (tasks[i].state = "running" /\ tasks'[i].state = "ok") =>
             /\ bq' = bq (+) BagOfSeq(rows_to_insert(tasks[i].batch))
             /\ BagCardinality(bq') = BagCardinality(bq) + Len(tasks[i].batch)
             /\ i \in DOMAIN alloy_calls => alloy_calls[i].batch = tasks[i].batch]_vars

\* C20 witness: the first batch was archived after the control thread had
\* cleared the buffer, refilled it and dispatched the second batch
C20_ArchivedAfterRefill ==
  /\ Len(tasks) = 2
  /\ tasks[1].state = "ok"
  /\ tasks[2].state = "queued"
  /\ BagCardinality(bq) = 1
  /\ pc = "alloy_commit"

====
